---- MODULE Spec2Model ----
(***************************************************************************)
(* A model of the binary format combinator library of src/src/ts/index.ts. *)
(*                                                                         *)
(* A Buffer is a sequence of bytes (0..255); the byte at the 0-based       *)
(* offset o of the code is element o+1 of the sequence.  A format is a     *)
(* record whose field "kind" names its class.  The operations of a format  *)
(* (minByteLength, measureByteLength, decodeFrom, encodeTo) are recursive  *)
(* operators that follow the class's methods; the generator methods of the *)
(* sequence formats are run one resumption at a time by the actions.       *)
(***************************************************************************)
EXTENDS Integers, Sequences, FiniteSets, TLC

(***************************************************************************)
(* Bounds of the model.                                                    *)
(***************************************************************************)
\* start offsets handed to an operation are 0..MaxStart
MaxStart == 2
\* source buffers over the small alphabet have at most MaxLen bytes
MaxLen == 3
\* the generator of a sequence is resumed at most MaxResume times
MaxResume == 6

(***************************************************************************)
(* JavaScript values.                                                      *)
(***************************************************************************)
\* the value `undefined` (what an out-of-range index read of a Buffer gives)
Undefined == 0 - 1000

Min(a, b) == IF a <= b THEN a ELSE b

Max(a, b) == IF a >= b THEN a ELSE b

\* Math.ceil(n / d) for n >= 0, d >= 1
Ceil(n, d) == (n + d - 1) \div d

\* the bytes of s from 0-based offset a (inclusive) to b (exclusive),
\* clamped to the buffer as Buffer.prototype.subarray clamps
subarray(s, a, b) ==
  LET lo == Min(Max(a, 0), Len(s))
      hi == Min(Max(b, lo), Len(s))
  IN  [i \in 1..(hi - lo) |-> s[lo + i]]

\* ToUint8 of an integer or undefined, as an indexed store into a Buffer does
ToUint8(v) == IF v = Undefined THEN 0 ELSE v % 256

\* target[offset] = value on a Buffer: out of range stores are ignored
storeByte(target, offset, value) ==
  IF offset >= 0 /\ offset < Len(target)
    THEN [target EXCEPT ![offset + 1] = ToUint8(value)]
    ELSE target

(***************************************************************************)
(* Scalar formats: the instances of FixedLengthFormatImpl.                 *)
(***************************************************************************)
UINT8 == [kind |-> "UINT8"]

INT8 == [kind |-> "INT8"]

UINT8_CLAMPED == [kind |-> "UINT8_CLAMPED"]

UINT16BE == [kind |-> "UINT16BE"]

UINT16LE == [kind |-> "UINT16LE"]

INT32LE == [kind |-> "INT32LE"]

ScalarKinds ==
  {"UINT8", "INT8", "UINT8_CLAMPED", "UINT16BE", "UINT16LE", "INT32LE"}

\* the argument each scalar class passes to super(...)
fixedByteLength(F) ==
  CASE F.kind \in {"UINT8", "INT8", "UINT8_CLAMPED"} -> 1
    [] F.kind \in {"UINT16BE", "UINT16LE"} -> 2
    [] F.kind = "INT32LE" -> 4

minValue(F) ==
  CASE F.kind = "INT8" -> 0 - 128
    [] F.kind = "INT32LE" -> 0 - 2147483647 - 1
    [] OTHER -> 0

maxValue(F) ==
  CASE F.kind \in {"UINT8", "UINT8_CLAMPED"} -> 255
    [] F.kind = "INT8" -> 127
    [] F.kind \in {"UINT16BE", "UINT16LE"} -> 65535
    [] F.kind = "INT32LE" -> 2147483647

\* read(source, offset) of each scalar: [v |-> value, err |-> threw].
\* source[offset] is undefined out of range; the Buffer read methods throw
\* a RangeError when the bytes are not all inside the buffer.
read(F, source, offset) ==
  LET w == fixedByteLength(F)
      inside == offset >= 0 /\ offset + w <= Len(source)
      b(i) == source[offset + 1 + i]
  IN  CASE F.kind \in {"UINT8", "UINT8_CLAMPED"} ->
             [v |-> IF inside THEN b(0) ELSE Undefined, err |-> FALSE]
        [] F.kind = "INT8" ->
             [v |-> IF ~inside THEN 0
                    ELSE IF b(0) >= 128 THEN b(0) - 256 ELSE b(0),
              err |-> FALSE]
        [] F.kind = "UINT16BE" ->
             IF inside THEN [v |-> b(0) * 256 + b(1), err |-> FALSE]
             ELSE [v |-> Undefined, err |-> TRUE]
        [] F.kind = "UINT16LE" ->
             IF inside THEN [v |-> b(0) + b(1) * 256, err |-> FALSE]
             ELSE [v |-> Undefined, err |-> TRUE]
        [] F.kind = "INT32LE" ->
             IF inside
               THEN [v |-> b(0) + b(1) * 256 + b(2) * 65536
                             + (IF b(3) >= 128 THEN b(3) - 256 ELSE b(3))
                                 * 16777216,
                     err |-> FALSE]
               ELSE [v |-> Undefined, err |-> TRUE]

\* write(target, offset, value) of each scalar: [buf |-> target after,
\* err |-> threw].  The Buffer write methods throw when the value is out of
\* the type's range or the bytes are not all inside the buffer.
write(F, target, offset, value) ==
  LET w == fixedByteLength(F)
      inside == offset >= 0 /\ offset + w <= Len(target)
      ok == inside /\ value # Undefined
             /\ value >= minValue(F) /\ value <= maxValue(F)
      bytes ==
        CASE F.kind = "UINT16BE" -> <<value \div 256, value % 256>>
          [] F.kind = "UINT16LE" -> <<value % 256, value \div 256>>
          [] F.kind = "INT32LE" ->
               <<value % 256, (value \div 256) % 256,
                 (value \div 65536) % 256, (value \div 16777216) % 256>>
          [] OTHER -> <<>>
  IN  CASE F.kind \in {"UINT8", "INT8"} ->
             [buf |-> storeByte(target, offset, value), err |-> FALSE]
        [] F.kind = "UINT8_CLAMPED" ->
             [buf |-> storeByte(target, offset,
                        IF value = Undefined THEN Undefined
                        ELSE Min(255, Max(0, value))),
              err |-> FALSE]
        [] OTHER ->
             IF ok
               THEN [buf |-> [i \in 1..Len(target) |->
                               IF i > offset /\ i <= offset + w
                                 THEN bytes[i - offset] ELSE target[i]],
                     err |-> FALSE]
               ELSE [buf |-> target, err |-> TRUE]

(***************************************************************************)
(* The host: the byte order probe of lines 541-572 runs once at load.      *)
(***************************************************************************)
VARIABLES hostLittleEndian

(***************************************************************************)
(* Typed numeric-array formats (16-bit unsigned kinds).                    *)
(***************************************************************************)
FixedCountUint8Array(n) == [kind |-> "FixedCountUint8Array", fixedCount |-> n]

FixedCountUint16LEArray(n) ==
  [kind |-> "FixedCountUint16LEArray", fixedCount |-> n]

FixedCountUint16BEArray(n) ==
  [kind |-> "FixedCountUint16BEArray", fixedCount |-> n]

TypedArrayKinds ==
  {"FixedCountUint8Array", "FixedCountUint16LEArray", "FixedCountUint16BEArray"}

\* ArrayType.BYTES_PER_ELEMENT of the ArrayType each class passes to super
BYTES_PER_ELEMENT(F) == IF F.kind = "FixedCountUint8Array" THEN 1 ELSE 2

\* Buffer.prototype.swap16 applied to the elements of a 16-bit array
swap16(array) ==
  [i \in 1..Len(array) |-> (array[i] % 256) * 256 + (array[i] \div 256)]

\* the initArray that the probe leaves on each class's prototype: swap16 on
\* the kinds whose declared order is not the host's, the empty base method
\* on the others
initArray(F, array) ==
  IF hostLittleEndian
    THEN IF F.kind = "FixedCountUint16BEArray" THEN swap16(array) ELSE array
    ELSE IF F.kind = "FixedCountUint16LEArray" THEN swap16(array) ELSE array

\* element i (0-based) of a typed array view over source starting at byte
\* offset: the host reads the element's bytes in its own byte order
viewElement(F, source, offset, i) ==
  LET at == offset + i * BYTES_PER_ELEMENT(F)
  IN  IF BYTES_PER_ELEMENT(F) = 1 THEN source[at + 1]
      ELSE IF hostLittleEndian
        THEN source[at + 1] + source[at + 2] * 256
        ELSE source[at + 1] * 256 + source[at + 2]

\* the raw bytes of a typed array, as the host stores its elements
rawBytes(F, array) ==
  IF BYTES_PER_ELEMENT(F) = 1 THEN array
  ELSE [j \in 1..(2 * Len(array)) |->
         LET e == array[(j + 1) \div 2]
             low == (j % 2) = 1
         IN  IF hostLittleEndian = low THEN e % 256 ELSE e \div 256]

\* source.copy(target, targetStart): copies what fits, returns the buffer
copy(source, target, targetStart) ==
  [i \in 1..Len(target) |->
     IF i > targetStart /\ i <= targetStart + Len(source)
       THEN source[i - targetStart] ELSE target[i]]

(***************************************************************************)
(* Composite formats.                                                      *)
(***************************************************************************)
createOrderedTuple(members) == [kind |-> "OrderedTuple", members |-> members]

\* members: a sequence of [name, format], in the key order of the member map
createNamedTuple(members) == [kind |-> "NamedTuple", members |-> members]

ExactMatchBytes(source) == [kind |-> "ExactMatchBytes", source |-> source]

ExactMatch(innerFormat, matchValue, nonMatchValue) ==
  [kind |-> "ExactMatch", innerFormat |-> innerFormat,
   matchValue |-> matchValue, nonMatchValue |-> nonMatchValue]

AlignedFormatImpl(innerFormat, padAlignment) ==
  [kind |-> "Aligned", innerFormat |-> innerFormat,
   padAlignment |-> padAlignment]

\* a concrete SelfTerminatingSequenceImpl whose terminator is one value:
\* createTerminator() returns it and isTerminator(v) is v === terminator
SelfTerminatingSequence(elementFormat, terminator) ==
  [kind |-> "SelfTerminating", elementFormat |-> elementFormat,
   terminator |-> terminator]

createGreedySequence(elementFormat) ==
  [kind |-> "Greedy", elementFormat |-> elementFormat]

createFixedCountSequence(fixedCount, elementFormat) ==
  [kind |-> "FixedCount", fixedCount |-> fixedCount,
   elementFormat |-> elementFormat]

createCountPrefixSequence(countFormat, elementFormat, minCount, maxCount) ==
  [kind |-> "CountPrefix", countFormat |-> countFormat,
   elementFormat |-> elementFormat, minCount |-> minCount,
   maxCount |-> maxCount]

GeneratorKinds == {"SelfTerminating", "FixedCount", "CountPrefix"}

createTerminator(F) == F.terminator

isTerminator(F, v) == v = F.terminator

\* value.length of a name-keyed record: the field named length when the
\* record has one, undefined otherwise
recordLength(value) ==
  IF "length" \in DOMAIN value THEN value["length"] ELSE Undefined

\* the number of times for (let i = 0; i < n; i++) runs its body
loopCount(n) == IF n = Undefined THEN 0 ELSE Max(n, 0)

\* the record without fields that Object.create(null) returns
emptyRecord == [n \in {} |-> Undefined]

(***************************************************************************)
(* Length bounds: the getters minByteLength and maxByteLength.             *)
(***************************************************************************)
\* the value Infinity
Infinity == 1000000000

\* the format of member i (1-based) of a tuple
memberFormat(F, i) ==
  IF F.kind = "NamedTuple" THEN F.members[i].format ELSE F.members[i]

RECURSIVE measureByteLength(_, _)
RECURSIVE minByteLength(_)
\* OrderedTupleImpl and NamedTupleImpl: the sum over the members
Tuple_minByteLength(F) ==
  LET sum[i \in 0..Len(F.members)] ==
        IF i = 0 THEN 0 ELSE sum[i - 1] + minByteLength(memberFormat(F, i))
  IN  sum[Len(F.members)]

AlignedFormatImpl_minByteLength(F) ==
  Ceil(minByteLength(F.innerFormat), F.padAlignment) * F.padAlignment

CountPrefixSequenceImpl_minByteLength(F) ==
  measureByteLength(F.countFormat, F.minCount)
    + minByteLength(F.elementFormat) * F.minCount

minByteLength(F) ==
  CASE F.kind \in ScalarKinds -> fixedByteLength(F)
    [] F.kind \in {"OrderedTuple", "NamedTuple"} -> Tuple_minByteLength(F)
    [] F.kind \in TypedArrayKinds -> BYTES_PER_ELEMENT(F) * F.fixedCount
    [] F.kind = "Aligned" -> AlignedFormatImpl_minByteLength(F)
    [] F.kind = "ExactMatchBytes" -> Len(F.source)
    [] F.kind = "ExactMatch" -> minByteLength(F.innerFormat)
    [] F.kind = "FixedCount" -> minByteLength(F.elementFormat) * F.fixedCount
    [] F.kind = "SelfTerminating" ->
         measureByteLength(F.elementFormat, createTerminator(F))
    [] F.kind = "CountPrefix" -> CountPrefixSequenceImpl_minByteLength(F)

RECURSIVE maxByteLength(_)
Tuple_maxByteLength(F) ==
  LET sum[i \in 0..Len(F.members)] ==
        IF i = 0 THEN 0 ELSE sum[i - 1] + maxByteLength(memberFormat(F, i))
  IN  sum[Len(F.members)]

AlignedFormatImpl_maxByteLength(F) ==
  Ceil(maxByteLength(F.innerFormat), F.padAlignment) * F.padAlignment

CountPrefixSequenceImpl_maxByteLength(F) ==
  measureByteLength(F.countFormat, F.maxCount)
    + maxByteLength(F.elementFormat) * F.maxCount

maxByteLength(F) ==
  CASE F.kind \in ScalarKinds -> fixedByteLength(F)
    [] F.kind \in {"OrderedTuple", "NamedTuple"} -> Tuple_maxByteLength(F)
    [] F.kind \in TypedArrayKinds -> BYTES_PER_ELEMENT(F) * F.fixedCount
    [] F.kind = "Aligned" -> AlignedFormatImpl_maxByteLength(F)
    [] F.kind = "ExactMatchBytes" -> Len(F.source)
    [] F.kind = "ExactMatch" -> maxByteLength(F.innerFormat)
    [] F.kind = "FixedCount" -> maxByteLength(F.elementFormat) * F.fixedCount
    [] F.kind = "SelfTerminating" -> Infinity
    [] F.kind = "CountPrefix" -> CountPrefixSequenceImpl_maxByteLength(F)

\* getAlignedFormat: the alignment is coerced to an integer >= 1 and a
\* fixed-size inner format whose size is a multiple of it is returned as is
getAlignedFormat(innerFormat, padAlignment) ==
  LET pad == Max(1, padAlignment)
  IN  IF minByteLength(innerFormat) = maxByteLength(innerFormat)
         /\ minByteLength(innerFormat) % pad = 0
        THEN innerFormat
        ELSE AlignedFormatImpl(innerFormat, pad)

(***************************************************************************)
(* measureByteLength.                                                      *)
(***************************************************************************)
OrderedTupleImpl_measureByteLength(F, value) ==
  LET len[i \in 0..Len(value)] ==
        IF i = 0 THEN 0
        ELSE len[i - 1] + measureByteLength(F.members[i], value[i])
  IN  len[Len(value)]

\* the loop is bounded by value.length of the name-keyed record
NamedTupleImpl_measureByteLength(F, value) ==
  LET n == loopCount(recordLength(value))
      len[i \in 0..n] ==
        IF i = 0 THEN 0
        ELSE len[i - 1] + measureByteLength(F.members[i].format,
                                            value[F.members[i].name])
  IN  len[n]

\* for (const el of value) byteLength += elementFormat.measureByteLength(el)
elementsByteLength(F, value) ==
  LET byteLength[i \in 0..Len(value)] ==
        IF i = 0 THEN 0
        ELSE byteLength[i - 1] + measureByteLength(F.elementFormat, value[i])
  IN  byteLength[Len(value)]

FixedCountSequenceImpl_measureByteLength(F, value) ==
  IF minByteLength(F.elementFormat) = maxByteLength(F.elementFormat)
    THEN minByteLength(F.elementFormat) * F.fixedCount
    ELSE elementsByteLength(F, value)

SelfTerminatingSequenceImpl_measureByteLength(F, value) ==
  elementsByteLength(F, value)
    + measureByteLength(F.elementFormat, createTerminator(F))

CountPrefixSequenceImpl_measureByteLength(F, value) ==
  measureByteLength(F.countFormat, Len(value)) + elementsByteLength(F, value)

AlignedFormatImpl_measureByteLength(F, value) ==
  Ceil(measureByteLength(F.innerFormat, value), F.padAlignment)
    * F.padAlignment

ExactMatchBytes_measureByteLength(F, value) == Len(F.source)

ExactMatch_measureByteLength(F, value) ==
  measureByteLength(F.innerFormat,
                    IF value THEN F.matchValue ELSE F.nonMatchValue)

measureByteLength(F, value) ==
  CASE F.kind \in ScalarKinds -> fixedByteLength(F)
    [] F.kind = "OrderedTuple" -> OrderedTupleImpl_measureByteLength(F, value)
    [] F.kind = "NamedTuple" -> NamedTupleImpl_measureByteLength(F, value)
    [] F.kind \in TypedArrayKinds -> Len(value) * BYTES_PER_ELEMENT(F)
    [] F.kind = "Aligned" -> AlignedFormatImpl_measureByteLength(F, value)
    [] F.kind = "ExactMatchBytes" -> ExactMatchBytes_measureByteLength(F, value)
    [] F.kind = "ExactMatch" -> ExactMatch_measureByteLength(F, value)
    [] F.kind = "Greedy" -> elementsByteLength(F, value)
    [] F.kind = "FixedCount" ->
         FixedCountSequenceImpl_measureByteLength(F, value)
    [] F.kind = "SelfTerminating" ->
         SelfTerminatingSequenceImpl_measureByteLength(F, value)
    [] F.kind = "CountPrefix" ->
         CountPrefixSequenceImpl_measureByteLength(F, value)

(***************************************************************************)
(* decodeFrom.  The result is [v |-> the value returned, offset |-> the    *)
(* cursor's offset afterwards, err |-> an exception was thrown].           *)
(***************************************************************************)
\* target.fill(value, offset, end): throws when end is beyond the buffer
fill(target, value, offset, end) ==
  IF end > Len(target) THEN [buf |-> target, err |-> TRUE]
  ELSE [buf |-> [i \in 1..Len(target) |->
                  IF i > offset /\ i <= end THEN value ELSE target[i]],
        err |-> FALSE]

\* a.equals(b) of two Buffers
equals(a, b) == Len(a) = Len(b) /\ \A i \in 1..Len(a) : a[i] = b[i]

\* the generator object a generator method returns: no statement of the
\* method has run yet
suspendedStart(F) == [generator |-> F]

\* a variant that rounds the absolute offset up instead
padAbsolute(offset, end, padAlignment) == Ceil(end, padAlignment) * padAlignment

\* a variant that rounds the extent down
padDown(offset, end, padAlignment) ==
  offset + ((end - offset) \div padAlignment) * padAlignment

\* offset + Math.ceil((end - offset) / padAlignment) * padAlignment
padFrom(offset, end, padAlignment) ==
  offset + Ceil(end - offset, padAlignment) * padAlignment

FixedLengthFormatImpl_decodeFrom(F, source, offset) ==
  LET r == read(F, source, offset)
  IN  IF r.err THEN [v |-> Undefined, offset |-> offset, err |-> TRUE]
      ELSE [v |-> r.v, offset |-> offset + fixedByteLength(F), err |-> FALSE]

\* the slice is compared with the buffer that the name source denotes in
\* the method's scope: its parameter
ExactMatchBytes_decodeFrom(F, source, offset) ==
  LET end == offset + Len(F.source)
  IN  [v |-> equals(subarray(source, end - Len(F.source), end), source),
       offset |-> end, err |-> FALSE]

\* a view over the source's bytes; the constructor throws when the start
\* is not a multiple of the element size or the view does not fit.  The
\* method does not call initArray.
FixedCountTypedArray_decodeFrom(F, source, offset) ==
  LET size == BYTES_PER_ELEMENT(F) * F.fixedCount
  IN  IF offset % BYTES_PER_ELEMENT(F) # 0 \/ offset + size > Len(source)
        THEN [v |-> Undefined, offset |-> offset, err |-> TRUE]
        ELSE [v |-> [i \in 1..F.fixedCount |->
                      viewElement(F, source, offset, i - 1)],
              offset |-> offset + size, err |-> FALSE]

RECURSIVE decodeFrom(_, _, _)
\* values.length is members.length
OrderedTupleImpl_decodeFrom(F, source, offset) ==
  LET values[i \in 0..Len(F.members)] ==
        IF i = 0 THEN [v |-> <<>>, offset |-> offset, err |-> FALSE]
        ELSE LET p == values[i - 1]
                 r == decodeFrom(F.members[i], source, p.offset)
             IN  IF p.err THEN p
                 ELSE [v |-> Append(p.v, r.v), offset |-> r.offset,
                       err |-> r.err]
  IN  values[Len(F.members)]

\* the loop is bounded by values.length of the record that
\* Object.create(null) has just returned
NamedTupleImpl_decodeFrom(F, source, offset) ==
  LET n == loopCount(recordLength(emptyRecord))
      values[i \in 0..n] ==
        IF i = 0 THEN [v |-> emptyRecord, offset |-> offset, err |-> FALSE]
        ELSE LET p == values[i - 1]
                 m == F.members[i]
                 r == decodeFrom(m.format, source, p.offset)
             IN  IF p.err THEN p
                 ELSE [v |-> [x \in DOMAIN p.v \cup {m.name} |->
                               IF x = m.name THEN r.v ELSE p.v[x]],
                       offset |-> r.offset, err |-> r.err]
  IN  values[n]

AlignedFormatImpl_decodeFrom(F, source, offset) ==
  LET inner == decodeFrom(F.innerFormat, source, offset)
  IN  IF inner.err THEN inner
      ELSE [inner EXCEPT
              !.offset = padFrom(offset, inner.offset, F.padAlignment)]

ExactMatch_decodeFrom(F, source, offset) ==
  LET inner == decodeFrom(F.innerFormat, source, offset)
  IN  IF inner.err THEN inner
      ELSE [inner EXCEPT !.v = (inner.v = F.matchValue)]

decodeFrom(F, source, offset) ==
  CASE F.kind \in ScalarKinds ->
         FixedLengthFormatImpl_decodeFrom(F, source, offset)
    [] F.kind = "OrderedTuple" -> OrderedTupleImpl_decodeFrom(F, source, offset)
    [] F.kind = "NamedTuple" -> NamedTupleImpl_decodeFrom(F, source, offset)
    [] F.kind \in TypedArrayKinds ->
         FixedCountTypedArray_decodeFrom(F, source, offset)
    [] F.kind = "Aligned" -> AlignedFormatImpl_decodeFrom(F, source, offset)
    [] F.kind = "ExactMatchBytes" -> ExactMatchBytes_decodeFrom(F, source, offset)
    [] F.kind = "ExactMatch" -> ExactMatch_decodeFrom(F, source, offset)
    [] F.kind \in GeneratorKinds ->
         [v |-> suspendedStart(F), offset |-> offset, err |-> FALSE]

(***************************************************************************)
(* findEndOffset.  The result is a number: an end offset, a negative       *)
(* sentinel, or NaN.                                                       *)
(***************************************************************************)
\* the number NaN, which no comparison holds for
NaN == 0 - 2000

\* a + b and a * b of numbers
add(a, b) == IF a = NaN \/ b = NaN THEN NaN ELSE a + b

mul(a, b) == IF a = NaN \/ b = NaN THEN NaN ELSE a * b

\* a < b, a > b and a >= b of numbers
lessThan(a, b) == a # NaN /\ b # NaN /\ a < b

greaterThan(a, b) == lessThan(b, a)

atLeast(a, b) == a # NaN /\ b # NaN /\ a >= b

\* -a
negated(a) == IF a = NaN THEN NaN ELSE 0 - a

\* the number that an operand converts to: undefined converts to NaN
ToNumber(v) == IF v = Undefined THEN NaN ELSE v

\* startOffset + fixedByteLength
FixedLengthFormatImpl_findEndOffset(F, source, startOffset) ==
  add(startOffset, fixedByteLength(F))

\* startOffset + BYTES_PER_ELEMENT * fixedCount
FixedCountTypedArray_findEndOffset(F, source, startOffset) ==
  add(startOffset, BYTES_PER_ELEMENT(F) * F.fixedCount)

\* startOffset + source.length of the literal
ExactMatchBytes_findEndOffset(F, source, startOffset) ==
  add(startOffset, Len(F.source))

RECURSIVE findEndOffset(_, _, _)

\* a variant that lets an offset equal to source.length pass
OrderedTupleImpl_findEndOffset_beyondOnly(F, source, offset) ==
  LET n == Len(F.members)
      walk[i \in 0..n] ==
        IF i = 0 THEN [offset |-> offset, returned |-> FALSE]
        ELSE LET p == walk[i - 1]
                 e == findEndOffset(F.members[i], source, p.offset)
             IN  IF p.returned THEN p
                 ELSE IF lessThan(e, 0) THEN [offset |-> e, returned |-> TRUE]
                 ELSE IF greaterThan(e, Len(source))
                   THEN [offset |-> negated(e), returned |-> TRUE]
                 ELSE [offset |-> e, returned |-> FALSE]
  IN  walk[n].offset

\* for each member: offset = members[i].findEndOffset(source, offset);
\* if (offset < 0) return offset; if (offset >= source.length) return -offset
OrderedTupleImpl_findEndOffset(F, source, offset) ==
  LET n == Len(F.members)
      walk[i \in 0..n] ==
        IF i = 0 THEN [offset |-> offset, returned |-> FALSE]
        ELSE LET p == walk[i - 1]
                 e == findEndOffset(F.members[i], source, p.offset)
             IN  IF p.returned THEN p
                 ELSE IF lessThan(e, 0) THEN [offset |-> e, returned |-> TRUE]
                 ELSE IF atLeast(e, Len(source))
                   THEN [offset |-> negated(e), returned |-> TRUE]
                 ELSE [offset |-> e, returned |-> FALSE]
  IN  walk[n].offset

\* the same loop over members[i].format
NamedTupleImpl_findEndOffset(F, source, offset) ==
  LET n == Len(F.members)
      walk[i \in 0..n] ==
        IF i = 0 THEN [offset |-> offset, returned |-> FALSE]
        ELSE LET p == walk[i - 1]
                 e == findEndOffset(F.members[i].format, source, p.offset)
             IN  IF p.returned THEN p
                 ELSE IF lessThan(e, 0) THEN [offset |-> e, returned |-> TRUE]
                 ELSE IF atLeast(e, Len(source))
                   THEN [offset |-> negated(e), returned |-> TRUE]
                 ELSE [offset |-> e, returned |-> FALSE]
  IN  walk[n].offset

\* whether the bytes at offset are those of a terminator: the element
\* decoded there is one
decodesToTerminator(F, buffer, offset) ==
  LET el == decodeFrom(F.elementFormat, buffer, offset)
  IN  ~el.err /\ isTerminator(F, el.v)

\* for (;;): the element's end offset is returned if negative, negated if
\* it is source.length or more, returned if the element at offset
\* decodesToTerminator; otherwise the loop goes on from it
RECURSIVE SelfTerminatingSequenceImpl_findEndOffset(_, _, _)
SelfTerminatingSequenceImpl_findEndOffset(F, source, offset) ==
  LET endOffset == findEndOffset(F.elementFormat, source, offset)
  IN  IF lessThan(endOffset, 0) THEN endOffset
      ELSE IF atLeast(endOffset, Len(source)) THEN negated(endOffset)
      ELSE IF decodesToTerminator(F, source, offset) THEN endOffset
      ELSE SelfTerminatingSequenceImpl_findEndOffset(F, source, endOffset)

\* closed form when the element is fixed-size; otherwise fixedCount
\* applications of the element's findEndOffset, whatever they return
FixedCountSequenceImpl_findEndOffset(F, source, offset) ==
  LET walk[i \in 0..F.fixedCount] ==
        IF i = 0 THEN offset
        ELSE findEndOffset(F.elementFormat, source, walk[i - 1])
  IN  IF minByteLength(F.elementFormat) = maxByteLength(F.elementFormat)
        THEN add(offset, minByteLength(F.elementFormat) * F.fixedCount)
      ELSE walk[F.fixedCount]

\* the count is decoded at offset; closed form from afterCount when the
\* element is fixed-size; otherwise count applications of the element's
\* findEndOffset to the variable offset, the method's parameter.  The
\* read of a one-byte count does not throw.
CountPrefixSequenceImpl_findEndOffset(F, source, offset) ==
  LET afterCount == findEndOffset(F.countFormat, source, offset)
      count == ToNumber(decodeFrom(F.countFormat, source, offset).v)
      n == IF greaterThan(count, 0) THEN count ELSE 0
      walk[i \in 0..n] ==
        IF i = 0 THEN offset
        ELSE findEndOffset(F.elementFormat, source, walk[i - 1])
  IN  IF lessThan(afterCount, 0) THEN afterCount
      ELSE IF greaterThan(afterCount, Len(source)) THEN negated(afterCount)
      ELSE IF minByteLength(F.elementFormat) = maxByteLength(F.elementFormat)
        THEN add(afterCount, mul(minByteLength(F.elementFormat), count))
      ELSE walk[n]

\* the inner end offset, returned if negative, otherwise rounded up to a
\* multiple of padAlignment
AlignedFormatImpl_findEndOffset(F, source, startOffset) ==
  LET endOffset == findEndOffset(F.innerFormat, source, startOffset)
  IN  IF lessThan(endOffset, 0) \/ endOffset = NaN THEN endOffset
      ELSE Ceil(endOffset, F.padAlignment) * F.padAlignment

ExactMatch_findEndOffset(F, source, startOffset) ==
  findEndOffset(F.innerFormat, source, startOffset)

findEndOffset(F, source, startOffset) ==
  CASE F.kind \in ScalarKinds ->
         FixedLengthFormatImpl_findEndOffset(F, source, startOffset)
    [] F.kind = "OrderedTuple" ->
         OrderedTupleImpl_findEndOffset(F, source, startOffset)
    [] F.kind = "NamedTuple" ->
         NamedTupleImpl_findEndOffset(F, source, startOffset)
    [] F.kind \in TypedArrayKinds ->
         FixedCountTypedArray_findEndOffset(F, source, startOffset)
    [] F.kind = "Aligned" ->
         AlignedFormatImpl_findEndOffset(F, source, startOffset)
    [] F.kind = "ExactMatchBytes" ->
         ExactMatchBytes_findEndOffset(F, source, startOffset)
    [] F.kind = "ExactMatch" ->
         ExactMatch_findEndOffset(F, source, startOffset)
    [] F.kind = "SelfTerminating" ->
         SelfTerminatingSequenceImpl_findEndOffset(F, source, startOffset)
    [] F.kind = "FixedCount" ->
         FixedCountSequenceImpl_findEndOffset(F, source, startOffset)
    [] F.kind = "CountPrefix" ->
         CountPrefixSequenceImpl_findEndOffset(F, source, startOffset)

(***************************************************************************)
(* encodeTo.  The result is [buf |-> the target afterwards, offset |-> the *)
(* cursor's offset afterwards, err |-> an exception was thrown].           *)
(***************************************************************************)
FixedLengthFormatImpl_encodeTo(F, target, offset, value) ==
  LET r == write(F, target, offset, value)
  IN  IF r.err THEN [buf |-> target, offset |-> offset, err |-> TRUE]
      ELSE [buf |-> r.buf, offset |-> offset + fixedByteLength(F),
            err |-> FALSE]

\* a variant whose filler is 0x00 whatever the literal's first byte
ExactMatchBytes_encodeTo_zeroFiller(F, target, offset, value) ==
  IF ~value
    THEN LET r == fill(target, 0, offset, offset + Len(F.source))
         IN  [buf |-> r.buf, offset |-> offset, err |-> r.err]
    ELSE [buf |-> copy(F.source, target, offset),
          offset |-> offset + Len(F.source), err |-> FALSE]

ExactMatchBytes_encodeTo(F, target, offset, value) ==
  IF ~value
    THEN LET r == fill(target, IF F.source[1] # 0 THEN 0 ELSE 255,
                       offset, offset + Len(F.source))
         IN  [buf |-> r.buf, offset |-> offset, err |-> r.err]
    ELSE [buf |-> copy(F.source, target, offset),
          offset |-> offset + Len(F.source), err |-> FALSE]

\* the raw bytes of the value are copied
FixedCountTypedArray_encodeTo(F, target, offset, value) ==
  [buf |-> copy(rawBytes(F, value), target, offset),
   offset |-> offset + Len(value) * BYTES_PER_ELEMENT(F), err |-> FALSE]

RECURSIVE encodeTo(_, _, _, _)
\* a faulty variant: every member is handed a cursor of its own that starts
\* at the tuple's offset, so the shared cursor is not threaded
OrderedTupleImpl_encodeTo_ownCursor(F, target, offset, value) ==
  LET loop[i \in 0..Len(value)] ==
        IF i = 0 THEN [buf |-> target, offset |-> offset, err |-> FALSE]
        ELSE LET p == loop[i - 1]
             IN  IF p.err THEN p
                 ELSE [encodeTo(F.members[i], p.buf, offset, value[i])
                         EXCEPT !.offset = offset]
  IN  loop[Len(value)]

\* for (i < value.length) members[i].encodeTo(target, offsetHolder, value[i])
OrderedTupleImpl_encodeTo(F, target, offset, value) ==
  LET loop[i \in 0..Len(value)] ==
        IF i = 0 THEN [buf |-> target, offset |-> offset, err |-> FALSE]
        ELSE LET p == loop[i - 1]
             IN  IF p.err THEN p
                 ELSE IF i > Len(F.members) THEN [p EXCEPT !.err = TRUE]
                 ELSE encodeTo(F.members[i], p.buf, p.offset, value[i])
  IN  loop[Len(value)]

\* the loop is bounded by value.length of the name-keyed record
NamedTupleImpl_encodeTo(F, target, offset, value) ==
  LET n == loopCount(recordLength(value))
      loop[i \in 0..n] ==
        IF i = 0 THEN [buf |-> target, offset |-> offset, err |-> FALSE]
        ELSE LET p == loop[i - 1]
             IN  IF p.err THEN p
                 ELSE IF i > Len(F.members) THEN [p EXCEPT !.err = TRUE]
                 ELSE encodeTo(F.members[i].format, p.buf, p.offset,
                               value[F.members[i].name])
  IN  loop[n]

\* for (const el of value) elementFormat.encodeTo(target, offsetHolder, el),
\* continuing from the outcome `first`
encodeElements(F, first, value) ==
  LET loop[i \in 0..Len(value)] ==
        IF i = 0 THEN first
        ELSE LET p == loop[i - 1]
             IN  IF p.err THEN p
                 ELSE encodeTo(F.elementFormat, p.buf, p.offset, value[i])
  IN  loop[Len(value)]

\* GreedySequenceImpl.encodeTo and FixedCountSequenceImpl.encodeTo
Sequence_encodeTo(F, target, offset, value) ==
  encodeElements(F, [buf |-> target, offset |-> offset, err |-> FALSE], value)

\* a variant that writes the elements and no terminator after them
SelfTerminatingSequenceImpl_encodeTo_noTerminator(F, target, offset, value) ==
  encodeElements(F, [buf |-> target, offset |-> offset, err |-> FALSE], value)

SelfTerminatingSequenceImpl_encodeTo(F, target, offset, value) ==
  LET p == Sequence_encodeTo(F, target, offset, value)
  IN  IF p.err THEN p
      ELSE encodeTo(F.elementFormat, p.buf, p.offset, createTerminator(F))

\* a variant that writes the count after the elements
CountPrefixSequenceImpl_encodeTo_countLast(F, target, offset, value) ==
  LET p == encodeElements(F, [buf |-> target, offset |-> offset,
                              err |-> FALSE], value)
  IN  IF p.err THEN p
      ELSE encodeTo(F.countFormat, p.buf, p.offset, Len(value))

\* values = [...value]; the count written is values.length
CountPrefixSequenceImpl_encodeTo(F, target, offset, value) ==
  encodeElements(F, encodeTo(F.countFormat, target, offset, Len(value)),
                 value)

AlignedFormatImpl_encodeTo(F, target, offset, value) ==
  LET inner == encodeTo(F.innerFormat, target, offset, value)
  IN  IF inner.err THEN inner
      ELSE [inner EXCEPT
              !.offset = padFrom(offset, inner.offset, F.padAlignment)]

ExactMatch_encodeTo(F, target, offset, value) ==
  encodeTo(F.innerFormat, target, offset,
           IF value THEN F.matchValue ELSE F.nonMatchValue)

encodeTo(F, target, offset, value) ==
  CASE F.kind \in ScalarKinds ->
         FixedLengthFormatImpl_encodeTo(F, target, offset, value)
    [] F.kind = "OrderedTuple" ->
         OrderedTupleImpl_encodeTo(F, target, offset, value)
    [] F.kind = "NamedTuple" -> NamedTupleImpl_encodeTo(F, target, offset, value)
    [] F.kind \in TypedArrayKinds ->
         FixedCountTypedArray_encodeTo(F, target, offset, value)
    [] F.kind = "Aligned" -> AlignedFormatImpl_encodeTo(F, target, offset, value)
    [] F.kind = "ExactMatchBytes" ->
         ExactMatchBytes_encodeTo(F, target, offset, value)
    [] F.kind = "ExactMatch" -> ExactMatch_encodeTo(F, target, offset, value)
    [] F.kind \in {"Greedy", "FixedCount"} ->
         Sequence_encodeTo(F, target, offset, value)
    [] F.kind = "SelfTerminating" ->
         SelfTerminatingSequenceImpl_encodeTo(F, target, offset, value)
    [] F.kind = "CountPrefix" ->
         CountPrefixSequenceImpl_encodeTo(F, target, offset, value)

(***************************************************************************)
(* Stream stages of the fixed-length formats.  The stream that runs the    *)
(* transform and flush functions is outside src: it calls transform once   *)
(* per written chunk, in order, with itself as `this`, and calls the next  *)
(* transform, or flush after end(), only once the callback of the previous *)
(* one has been invoked.                                                   *)
(***************************************************************************)
\* Buffer.alloc(n)
alloc(n) == [i \in 1..n |-> 0]

\* the number of bytes source.copy(target, targetStart) copies
copied(source, target, targetStart) ==
  Max(Min(Len(source), Len(target) - targetStart), 0)

\* the closure of createDecodingStream: overflow and overflowOffset
createDecodingStream(F) ==
  [overflow |-> alloc(fixedByteLength(F)), overflowOffset |-> 0]

\* transform(buffer, _, callback) of the decoding stream, in the closure st:
\* the closure afterwards, the values handed to this.push, whether callback
\* was invoked and whether self.read threw
DecodingStream_transform(F, st, chunk) ==
  LET len == fixedByteLength(F)
      pending == st.overflowOffset > 0
      n == IF pending THEN copied(chunk, st.overflow, st.overflowOffset) ELSE 0
      overflow1 == IF pending THEN copy(chunk, st.overflow, st.overflowOffset)
                   ELSE st.overflow
      overflowOffset1 == st.overflowOffset + n
      first == read(F, chunk, 0)
      rest == subarray(chunk, n, Len(chunk))
      crop == Len(rest) % len
      overflow2 == IF crop # 0
                     THEN copy(subarray(rest, Len(rest) - crop, Len(rest)),
                               overflow1, 0)
                     ELSE overflow1
      whole == subarray(rest, 0, Len(rest) - crop)
      elements == [k \in 1..(Len(whole) \div len) |->
                     read(F, whole, (k - 1) * len).v]
  IN  IF pending /\ overflowOffset1 < len
        THEN [overflow |-> overflow1, overflowOffset |-> overflowOffset1,
              pushes |-> <<>>, callback |-> FALSE, err |-> FALSE]
      ELSE IF pending /\ first.err
        THEN [overflow |-> overflow1, overflowOffset |-> overflowOffset1,
              pushes |-> <<>>, callback |-> FALSE, err |-> TRUE]
      ELSE [overflow |-> overflow2, overflowOffset |-> crop,
            pushes |-> (IF pending THEN <<first.v>> ELSE <<>>) \o elements,
            callback |-> TRUE, err |-> FALSE]

\* flush(callback) of the decoding stream: the error handed to callback
DecodingStream_flush(st) ==
  IF st.overflowOffset > 0 THEN "unexpected bytes" ELSE "none"

\* transform(chunk, _, callback) of the encoding stream: `this` is the
\* stream, so this.write(buf, 0, chunk) hands buf to the stream's own write
\* and the format's write is not called; buf is handed to callback
EncodingStream_transform(F, chunk) ==
  LET buf == alloc(fixedByteLength(F))
  IN  [written |-> buf, value |-> buf]

(***************************************************************************)
(* The callers' inputs.                                                    *)
(***************************************************************************)
\* all sequences over S of length lo..hi
SeqsOf(S, lo, hi) == UNION {[1..n -> S] : n \in lo..hi}

\* the bytes a source buffer is built from
Alphabet == {0, 1, 2, 3}

Literals == {<<65, 66>>, <<1, 2>>, <<0, 1>>, <<65, 66, 67>>}

\* buffers of the documented examples
ExampleSources ==
  {<<5, 44, 1>>, <<0, 1, 0, 2>>, <<1, 2, 3, 0>>, <<2, 170, 187, 255>>,
   <<65, 66>>, <<65, 67>>, <<65, 66, 67>>, <<9, 65, 66, 9>>}

Sources == SeqsOf(Alphabet, 0, MaxLen) \cup ExampleSources

TargetLen == MaxStart + 6

\* targets as Buffer.alloc(TargetLen) and Buffer.alloc(TargetLen, 0xEE)
Targets == {[i \in 1..TargetLen |-> 0], [i \in 1..TargetLen |-> 238]}

ScalarFormats == {UINT8, INT8, UINT8_CLAMPED, UINT16BE, UINT16LE, INT32LE}

MemberFormats == {UINT8, UINT16LE, UINT16BE}

OrderedTuples == {createOrderedTuple(m) : m \in SeqsOf(MemberFormats, 1, 2)}

\* ordered tuples with a lazily decoded sequence followed by a scalar
SequenceTuples ==
  {createOrderedTuple(<<createFixedCountSequence(2, UINT8), UINT8>>),
   createOrderedTuple(<<createCountPrefixSequence(UINT8, UINT8, 0, 255),
                        UINT8>>)}

NamedTuples ==
  {createNamedTuple(<<[name |-> "a", format |-> UINT8],
                      [name |-> "b", format |-> UINT16LE]>>),
   createNamedTuple(<<[name |-> "length", format |-> UINT8],
                      [name |-> "data", format |-> UINT16BE]>>)}

MatchFormats ==
  {ExactMatchBytes(l) : l \in Literals} \cup {ExactMatch(UINT8, 1, 0)}

TypedArrays ==
  UNION {{FixedCountUint8Array(n), FixedCountUint16LEArray(n),
          FixedCountUint16BEArray(n)} : n \in 1..2}

\* the alignments a wrapper is built with are 1..MaxAlign
MaxAlign == 4

AlignedInner ==
  ScalarFormats
    \cup {createOrderedTuple(<<UINT8, UINT16LE>>),
          ExactMatchBytes(<<65, 66, 67>>)}

AlignedFormats ==
  {getAlignedFormat(f, a) : f \in AlignedInner, a \in 1..MaxAlign}

SelfTerminatingSequences ==
  {SelfTerminatingSequence(UINT8, 0), SelfTerminatingSequence(UINT16LE, 0)}

CountPrefixSequences ==
  {createCountPrefixSequence(UINT8, UINT8, 0, 255),
   createCountPrefixSequence(UINT8, UINT8, 1, 2),
   createCountPrefixSequence(UINT8, UINT8, 2, 1),
   createCountPrefixSequence(UINT8, UINT16LE, 1, 2)}

FixedCountSequences == {createFixedCountSequence(2, UINT8)}

EagerFormats ==
  ScalarFormats \cup OrderedTuples \cup NamedTuples \cup MatchFormats
    \cup TypedArrays \cup AlignedFormats

SequenceFormats ==
  SelfTerminatingSequences \cup CountPrefixSequences \cup FixedCountSequences

NonGreedyFormats == EagerFormats \cup SequenceFormats

Formats == NonGreedyFormats \cup {createGreedySequence(UINT8)}

\* a tuple in a tuple, a sequence in a named tuple, a sequence of tuples
NestedFormats ==
  {createOrderedTuple(<<UINT8, createOrderedTuple(<<UINT8, UINT8>>)>>),
   createOrderedTuple(<<createOrderedTuple(<<UINT8, UINT8>>), UINT8>>),
   createNamedTuple(<<[name |-> "a",
                       format |-> SelfTerminatingSequence(UINT8, 0)],
                      [name |-> "b", format |-> UINT8]>>),
   SelfTerminatingSequence(createOrderedTuple(<<UINT8, UINT8>>), <<0, 0>>)}

\* a count-prefixed sequence of count-prefixed sequences of bytes
SequenceOfSequences ==
  createCountPrefixSequence(UINT8,
                            createCountPrefixSequence(UINT8, UINT8, 0, 255),
                            0, 255)

\* the largest byte of a buffer handed to findEndOffset, which may be a
\* count
MaxCount == 9

\* the buffers handed to findEndOffset
EndOffsetSources ==
  {source \in Sources : \A i \in 1..Len(source) : source[i] <= MaxCount}

\* the formats whose findEndOffset the callers call
EndOffsetFormats ==
  NonGreedyFormats \cup NestedFormats \cup {SequenceOfSequences}

\* values representable by a scalar format
ScalarValues(F) ==
  CASE F.kind \in {"UINT8", "UINT8_CLAMPED"} -> {0, 1, 5, 255}
    [] F.kind = "INT8" -> {0 - 128, 0 - 1, 0, 127}
    [] F.kind \in {"UINT16BE", "UINT16LE"} -> {0, 1, 300, 65535}
    [] F.kind = "INT32LE" -> {0 - 2, 300, 16909060, 2147483647}

\* the bytes written to a decoding stream are the first bytes of
\* 1, 2, .., StreamLen, split into chunks of 1..MaxChunkLen bytes
StreamLen == 8

MaxChunkLen == 6

\* at most MaxChunks chunks are written to a stream
MaxChunks == 4

StreamBytes == [i \in 1..StreamLen |-> i]

\* values representable by a format
RECURSIVE Values(_)
Values(F) ==
  CASE F.kind \in ScalarKinds -> ScalarValues(F)
    [] F.kind = "OrderedTuple" ->
         {v \in SeqsOf(UNION {Values(F.members[i]) : i \in 1..Len(F.members)},
                       Len(F.members), Len(F.members)) :
            \A i \in 1..Len(F.members) : v[i] \in Values(F.members[i])}
    [] F.kind = "NamedTuple" ->
         {[n \in {F.members[i].name : i \in 1..Len(F.members)} |->
             IF n = F.members[1].name THEN x ELSE y] :
            x \in {1, 2, 5}, y \in {0, 300}}
    [] F.kind \in {"ExactMatchBytes", "ExactMatch"} -> BOOLEAN
    [] F.kind = "FixedCountUint8Array" -> SeqsOf({1, 2}, F.fixedCount, F.fixedCount)
    [] F.kind \in TypedArrayKinds ->
         SeqsOf({1, 2, 256, 512}, F.fixedCount, F.fixedCount)
    [] F.kind = "Aligned" -> Values(F.innerFormat)
    [] F.kind = "FixedCount" ->
         SeqsOf({1, 7}, F.fixedCount, F.fixedCount)
    [] F.kind \in {"Greedy", "SelfTerminating", "CountPrefix"} ->
         SeqsOf({0, 1, 7}, 0, 2) \cup {<<7, 8, 9>>, <<1, 2, 3>>}

(***************************************************************************)
(* State.                                                                  *)
(***************************************************************************)
VARIABLES
  pc,            \* where the caller's current operation stands
  op,            \* the operation: "encodeTo", "decodeFrom", "roundTrip"
  format,        \* the format the operation is called on
  buffer,        \* the Buffer handed to the operation (target or source)
  before,        \* the target as it was before encodeTo
  offsetHolder,  \* the cursor: [offset |-> n]
  startOffset,   \* the cursor's offset when the operation was called
  value,         \* <<type, v>>: the value v handed to encodeTo
  result,        \* <<type, v>>: what decodeFrom returned, or the elements
                 \* that the generator has yielded so far
  count,         \* the generator's local variable (count, or i)
  elementDecodes,\* how many times the generator called elementFormat.decodeFrom
  resumes,       \* how many times the generator was resumed
  enclosing,     \* the tuple call that returned the generator being
                 \* iterated: its format, start offset and values
  stage,         \* the closure of a stream stage: overflow, overflowOffset
  chunks,        \* the chunks <<type, chunk>> written to the stream so far
  handed,        \* how many of them have been handed to transform
  acked,         \* how many times transform has invoked its callback
  pushed,        \* what the stage has emitted, as <<type, chunk>>
  writable,      \* "open", "ending" after end(), "finished" after flush
  streamError    \* the error the stream has reported, or "none"

streamVars == <<stage, chunks, handed, acked, pushed, writable, streamError>>

vars ==
  <<hostLittleEndian, pc, op, format, buffer, before, offsetHolder,
    startOffset, value, result, count, elementDecodes, resumes, enclosing,
    stage, chunks, handed, acked, pushed, writable, streamError>>

\* no stream stage has been created
NoStage == [overflow |-> <<>>, overflowOffset |-> 0]

NoFormat == [kind |-> "none"]

\* typeof the values of a format; the state holds a value v as <<type, v>>
RECURSIVE valueType(_)
valueType(F) ==
  CASE F.kind \in ScalarKinds -> "number"
    [] F.kind = "OrderedTuple"
         /\ (\E i \in 1..Len(F.members) : F.members[i].kind \in GeneratorKinds)
         -> "lazyTuple"
    [] F.kind = "NamedTuple" -> "record"
    [] F.kind \in {"ExactMatchBytes", "ExactMatch"} -> "boolean"
    [] F.kind = "Aligned" -> valueType(F.innerFormat)
    [] OTHER -> "array"

NoValue == <<"undefined", Undefined>>

\* the generator being iterated was not returned by a tuple
NoEnclosing == [format |-> NoFormat, startOffset |-> 0, result |-> NoValue]

Init ==
  /\ hostLittleEndian \in BOOLEAN
  /\ pc = "idle"
  /\ op = "none"
  /\ format = NoFormat
  /\ buffer = <<>>
  /\ before = <<>>
  /\ offsetHolder = [offset |-> 0]
  /\ startOffset = 0
  /\ value = NoValue
  /\ result = NoValue
  /\ count = Undefined
  /\ elementDecodes = 0
  /\ resumes = 0
  /\ enclosing = NoEnclosing
  /\ stage = NoStage
  /\ chunks = <<>>
  /\ handed = 0
  /\ acked = 0
  /\ pushed = <<>>
  /\ writable = "open"
  /\ streamError = "none"

\* a caller calls F.encodeTo(target, {offset: s}, v)
EncodeTo(F, target, s, v) ==
  LET r == encodeTo(F, target, s, v)
  IN  /\ pc = "idle"
      /\ pc' = IF r.err THEN "threw" ELSE "encoded"
      /\ op' = "encodeTo"
      /\ format' = F
      /\ before' = target
      /\ buffer' = r.buf
      /\ offsetHolder' = [offset |-> r.offset]
      /\ startOffset' = s
      /\ value' = <<valueType(F), v>>
      /\ UNCHANGED <<hostLittleEndian, result, count, elementDecodes, resumes,
                     enclosing>>
      /\ UNCHANGED streamVars

\* F.decodeFrom(source, {offset: s}) returns: a value, or for a generator
\* method the generator object before any of its statements has run
decodeCall(F, source, s, o) ==
  LET r == decodeFrom(F, source, s)
  IN  /\ pc' = IF r.err THEN "threw"
               ELSE IF F.kind \in GeneratorKinds THEN "suspendedStart"
               ELSE "decoded"
      /\ op' = o
      /\ format' = F
      /\ buffer' = source
      /\ offsetHolder' = [offset |-> r.offset]
      /\ startOffset' = s
      /\ result' = IF r.err THEN NoValue
                   ELSE IF F.kind \in GeneratorKinds THEN <<"array", <<>>>>
                   ELSE <<valueType(F), r.v>>
      /\ count' = Undefined
      /\ elementDecodes' = 0
      /\ resumes' = 0
      /\ UNCHANGED <<hostLittleEndian, enclosing, streamVars>>

\* a caller calls F.decodeFrom(source, {offset: s})
DecodeFrom(F, source, s) ==
  /\ pc = "idle"
  /\ decodeCall(F, source, s, "decodeFrom")
  /\ UNCHANGED <<before, value>>

\* the caller decodes what it has just encoded, from where it was written
DecodeEncoded ==
  /\ pc = "encoded"
  /\ format.kind # "Greedy"
  /\ decodeCall(format, buffer, startOffset, "roundTrip")
  /\ UNCHANGED <<before, value>>

\* One resumption of a generator: the method's body runs from where it is
\* suspended to its next yield, to its end, or to an exception.  `c` is the
\* value of the local variable when the loop condition is evaluated.
\* elementFormat.decodeFrom is called when `more` holds; the element is
\* yielded unless the loop breaks on terminators and it is one.
resumeLoop(c, more, breaks) ==
  LET r == decodeFrom(format.elementFormat, buffer, offsetHolder.offset)
      stop(v) == breaks /\ isTerminator(format, v)
  IN  IF ~more
        THEN /\ pc' = "closed"
             /\ count' = c
             /\ UNCHANGED <<offsetHolder, result, elementDecodes>>
        ELSE /\ elementDecodes' = elementDecodes + 1
             /\ offsetHolder' = [offset |-> r.offset]
             /\ count' = c
             /\ pc' = IF r.err THEN "threw"
                      ELSE IF stop(r.v) THEN "closed"
                      ELSE "suspendedYield"
             /\ result' = IF r.err \/ stop(r.v) THEN result
                          ELSE <<"array", Append(result[2], r.v)>>

\* for (;;) { el = decode; if (isTerminator(el)) break; yield el }
SelfTerminatingSequenceImpl_decodeFrom ==
  resumeLoop(count, TRUE, TRUE)

\* i is 0 at the start and is
\* incremented when the generator is resumed after a yield
FixedCountSequenceImpl_decodeFrom ==
  LET i == IF pc = "suspendedStart" THEN 0 ELSE count + 1
  IN  resumeLoop(i, i < format.fixedCount, FALSE)

\* a variant that throws when the decoded count is outside
\* minCount..maxCount
CountPrefixSequenceImpl_decodeFrom_checked ==
  LET first == decodeFrom(format.countFormat, buffer, offsetHolder.offset)
  IN  IF pc = "suspendedStart"
        THEN IF first.err \/ first.v = Undefined
                  \/ first.v < format.minCount \/ first.v > format.maxCount
               THEN /\ pc' = "threw"
                    /\ UNCHANGED <<offsetHolder, result, count, elementDecodes>>
               ELSE IF first.v # Undefined /\ first.v > 0
                 THEN LET r == decodeFrom(format.elementFormat, buffer,
                                          first.offset)
                      IN  /\ elementDecodes' = elementDecodes + 1
                          /\ offsetHolder' = [offset |-> r.offset]
                          /\ count' = first.v - 1
                          /\ pc' = IF r.err THEN "threw" ELSE "suspendedYield"
                          /\ result' = IF r.err THEN result
                                       ELSE <<"array", Append(result[2], r.v)>>
                 ELSE /\ pc' = "closed"
                      /\ offsetHolder' = [offset |-> first.offset]
                      /\ count' = IF first.v = Undefined THEN Undefined
                                  ELSE first.v - 1
                      /\ UNCHANGED <<result, elementDecodes>>
        ELSE resumeLoop(count - 1, count > 0, FALSE)

\* the count is decoded when the
\* generator is first resumed; while (count-- > 0) yields an element
CountPrefixSequenceImpl_decodeFrom ==
  LET first == decodeFrom(format.countFormat, buffer, offsetHolder.offset)
  IN  IF pc = "suspendedStart"
        THEN IF first.err
               THEN /\ pc' = "threw"
                    /\ UNCHANGED <<offsetHolder, result, count, elementDecodes>>
               ELSE IF first.v # Undefined /\ first.v > 0
                 THEN LET r == decodeFrom(format.elementFormat, buffer,
                                          first.offset)
                      IN  /\ elementDecodes' = elementDecodes + 1
                          /\ offsetHolder' = [offset |-> r.offset]
                          /\ count' = first.v - 1
                          /\ pc' = IF r.err THEN "threw" ELSE "suspendedYield"
                          /\ result' = IF r.err THEN result
                                       ELSE <<"array", Append(result[2], r.v)>>
                 ELSE /\ pc' = "closed"
                      /\ offsetHolder' = [offset |-> first.offset]
                      /\ count' = IF first.v = Undefined THEN Undefined
                                  ELSE first.v - 1
                      /\ UNCHANGED <<result, elementDecodes>>
        ELSE resumeLoop(count - 1, count > 0, FALSE)

\* the caller asks the generator for its next element
IteratorNext ==
  /\ pc \in {"suspendedStart", "suspendedYield"}
  /\ resumes < MaxResume
  /\ resumes' = resumes + 1
  /\ CASE format.kind = "SelfTerminating" -> SelfTerminatingSequenceImpl_decodeFrom
       [] format.kind = "FixedCount" -> FixedCountSequenceImpl_decodeFrom
       [] format.kind = "CountPrefix" -> CountPrefixSequenceImpl_decodeFrom
  /\ UNCHANGED <<hostLittleEndian, op, format, buffer, before, startOffset,
                 value, enclosing, streamVars>>

\* The caller takes the generator that an ordered tuple's decodeFrom has
\* put in values[i] and starts to iterate it.  The generator was created
\* with the caller's offsetHolder and has run none of its statements: its
\* first resumption reads from wherever the cursor is by then.
IterateMember ==
  /\ pc = "decoded"
  /\ format.kind = "OrderedTuple"
  /\ \E i \in 1..Len(format.members) :
       /\ format.members[i].kind \in GeneratorKinds
       /\ result[2][i] = suspendedStart(format.members[i])
       /\ format' = format.members[i]
  /\ pc' = "suspendedStart"
  /\ op' = "memberDecodeFrom"
  /\ enclosing' = [format |-> format, startOffset |-> startOffset,
                   result |-> result]
  /\ startOffset' = offsetHolder.offset
  /\ result' = <<"array", <<>>>>
  /\ count' = Undefined
  /\ elementDecodes' = 0
  /\ resumes' = 0
  /\ UNCHANGED <<hostLittleEndian, buffer, before, offsetHolder, value,
                 streamVars>>

codecVars ==
  <<hostLittleEndian, buffer, before, offsetHolder, startOffset, value,
    result, count, elementDecodes, resumes, enclosing>>

\* a caller calls F.createDecodingStream()
CreateDecodingStream ==
  /\ pc = "idle"
  /\ \E F \in ScalarFormats :
       /\ format' = F
       /\ stage' = createDecodingStream(F)
  /\ pc' = "decodingStream"
  /\ op' = "createDecodingStream"
  /\ UNCHANGED <<codecVars, chunks, handed, acked, pushed, writable,
                 streamError>>

\* a caller calls F.createEncodingStream()
CreateEncodingStream ==
  /\ pc = "idle"
  /\ \E F \in ScalarFormats : format' = F
  /\ pc' = "encodingStream"
  /\ op' = "createEncodingStream"
  /\ UNCHANGED <<codecVars, streamVars>>

\* the number of bytes in the chunks cs
RECURSIVE byteLength(_)
byteLength(cs) ==
  IF cs = <<>> THEN 0 ELSE Len(Head(cs)[2]) + byteLength(Tail(cs))

\* what a caller may write next: the next bytes of the byte stream to a
\* decoding stream, a value of the format to an encoding stream
NextChunks ==
  IF pc = "decodingStream"
    THEN LET done == byteLength(chunks)
         IN  {<<"buffer", subarray(StreamBytes, done, done + k)>> :
                k \in 1..Min(MaxChunkLen, StreamLen - done)}
    ELSE {<<"number", v>> : v \in ScalarValues(format)}

\* the caller calls stream.write(chunk): the chunk is queued
StreamWrite ==
  /\ pc \in {"decodingStream", "encodingStream"}
  /\ writable = "open"
  /\ streamError = "none"
  /\ Len(chunks) < MaxChunks
  /\ \E chunk \in NextChunks : chunks' = Append(chunks, chunk)
  /\ UNCHANGED <<pc, op, format, codecVars, stage, handed, acked, pushed,
                 writable, streamError>>

\* the caller calls stream.end()
StreamEnd ==
  /\ pc \in {"decodingStream", "encodingStream"}
  /\ writable = "open"
  /\ streamError = "none"
  /\ writable' = "ending"
  /\ UNCHANGED <<pc, op, format, codecVars, stage, chunks, handed, acked,
                 pushed, streamError>>

\* the stream hands the next queued chunk to transform, the callback of
\* the previous chunk having been invoked
Transform ==
  /\ pc \in {"decodingStream", "encodingStream"}
  /\ streamError = "none"
  /\ handed = acked
  /\ handed < Len(chunks)
  /\ handed' = handed + 1
  /\ IF pc = "decodingStream"
       THEN LET r == DecodingStream_transform(format, stage,
                                              chunks[handed + 1][2])
            IN  /\ stage' = [overflow |-> r.overflow,
                             overflowOffset |-> r.overflowOffset]
                /\ pushed' = pushed \o [i \in 1..Len(r.pushes) |->
                                          <<"number", r.pushes[i]>>]
                /\ acked' = IF r.callback THEN acked + 1 ELSE acked
                /\ streamError' = IF r.err THEN "RangeError" ELSE "none"
                /\ UNCHANGED chunks
       ELSE LET r == EncodingStream_transform(format, chunks[handed + 1][2])
            IN  /\ Len(chunks) < MaxChunks
                /\ IF writable = "open"
                     THEN /\ chunks' = Append(chunks, <<"buffer", r.written>>)
                          /\ UNCHANGED streamError
                     ELSE /\ streamError' = "write after end"
                          /\ UNCHANGED chunks
                /\ pushed' = Append(pushed, <<"buffer", r.value>>)
                /\ acked' = acked + 1
                /\ UNCHANGED stage
  /\ UNCHANGED <<pc, op, format, codecVars, writable>>

\* end() was called and every chunk has been acknowledged: the stream
\* calls flush, where the stage has one, and finishes
Flush ==
  /\ pc \in {"decodingStream", "encodingStream"}
  /\ writable = "ending"
  /\ streamError = "none"
  /\ handed = Len(chunks)
  /\ acked = handed
  /\ writable' = "finished"
  /\ streamError' = IF pc = "decodingStream" THEN DecodingStream_flush(stage)
                    ELSE "none"
  /\ UNCHANGED <<pc, op, format, codecVars, stage, chunks, handed, acked,
                 pushed>>

\* the operation is over; the caller starts the next one with a new cursor
Return ==
  /\ pc # "idle"
  /\ pc' = "idle"
  /\ op' = "none"
  /\ format' = NoFormat
  /\ buffer' = <<>>
  /\ before' = <<>>
  /\ offsetHolder' = [offset |-> 0]
  /\ startOffset' = 0
  /\ value' = NoValue
  /\ result' = NoValue
  /\ count' = Undefined
  /\ elementDecodes' = 0
  /\ resumes' = 0
  /\ enclosing' = NoEnclosing
  /\ stage' = NoStage
  /\ chunks' = <<>>
  /\ handed' = 0
  /\ acked' = 0
  /\ pushed' = <<>>
  /\ writable' = "open"
  /\ streamError' = "none"
  /\ UNCHANGED hostLittleEndian

\* a caller with no operation under way calls
\* F.findEndOffset(source, s)
FindEndOffset ==
  /\ pc = "idle"
  /\ \E F \in EndOffsetFormats, source \in EndOffsetSources,
        s \in 0..MaxStart :
       /\ format' = F
       /\ buffer' = source
       /\ startOffset' = s
       /\ result' = <<"number", findEndOffset(F, source, s)>>
  /\ pc' = "found"
  /\ op' = "findEndOffset"
  /\ UNCHANGED <<hostLittleEndian, before, offsetHolder, value, count,
                 elementDecodes, resumes, enclosing, streamVars>>

\* a caller with no operation under way calls encodeTo
CallEncodeTo ==
  /\ pc = "idle"
  /\ \E F \in Formats, target \in Targets, s \in 0..MaxStart :
       \E v \in Values(F) : EncodeTo(F, target, s, v)

\* a caller with no operation under way calls decodeFrom
CallDecodeFrom ==
  /\ pc = "idle"
  /\ \E F \in NonGreedyFormats \cup SequenceTuples, source \in Sources,
        s \in 0..MaxStart :
       DecodeFrom(F, source, s)

Next ==
  \/ CallEncodeTo
  \/ CallDecodeFrom
  \/ DecodeEncoded
  \/ IteratorNext
  \/ IterateMember
  \/ FindEndOffset
  \/ CreateDecodingStream
  \/ CreateEncodingStream
  \/ StreamWrite
  \/ StreamEnd
  \/ Transform
  \/ Flush
  \/ Return

Spec == Init /\ [][Next]_vars

(***************************************************************************)
(* Properties.                                                             *)
(***************************************************************************)
offset == offsetHolder.offset

\* the value handed to encodeTo and the value decoded
val == value[2]

res == result[2]

\* the bytes that a scalar format writes for v
scalarBytes(M, v) ==
  write(M, [i \in 1..fixedByteLength(M) |-> 0], 0, v).buf

\* the concatenation of the bytes of the scalars vs[1..n] in formats fs[1..n]
concatBytes(fs, vs) ==
  LET cat[i \in 0..Len(vs)] ==
        IF i = 0 THEN <<>> ELSE cat[i - 1] \o scalarBytes(fs[i], vs[i])
  IN  cat[Len(vs)]

\* the bytes of the buffer from the start offset, n of them
written(n) == subarray(buffer, startOffset, startOffset + n)

TupleExample == createOrderedTuple(<<UINT8, UINT16LE>>)

\* C1: encodeTo of an ordered tuple writes the members' encodings one after
\* the other in member order, decodeFrom on those bytes returns the values
\* in the same positions, and both leave the cursor just past the last
\* member; [UINT8, UINT16LE] encodes [5, 300] as 05 2C 01 and decodes
\* 05 2C 01 as [5, 300].
C1_OrderedTupleLayout ==
  format.kind = "OrderedTuple" =>
    /\ op \in {"encodeTo", "roundTrip"} =>
         LET bytes == concatBytes(format.members, val)
         IN  /\ pc # "threw"
             /\ written(Len(bytes)) = bytes
             /\ offset = startOffset + Len(bytes)
             /\ pc = "decoded" => res = val
             /\ format = TupleExample /\ val = <<5, 300>>
                  => bytes = <<5, 44, 1>>
    /\ pc = "decoded" /\ format = TupleExample /\ startOffset = 0
         /\ buffer = <<5, 44, 1>>
         => res = <<5, 300>> /\ offset = 3

C1_Witness ==
  /\ pc = "decoded"
  /\ op = "roundTrip"
  /\ format = TupleExample
  /\ val = <<5, 300>>
  /\ startOffset = 1
  /\ offset = 4

\* C2: encodeTo of any format and value advances the cursor by exactly
\* measureByteLength(value) and writes inside those bytes only, the
\* literal-bytes match format for true and for false included.
C2_EncodeAdvancesByMeasure ==
  pc = "encoded" =>
    LET n == measureByteLength(format, val)
    IN  /\ offset = startOffset + n
        /\ \A i \in 1..Len(buffer) :
             (i <= startOffset \/ i > startOffset + n) => buffer[i] = before[i]

\* the names of the members of a named tuple
memberNames(F) == {F.members[i].name : i \in 1..Len(F.members)}

\* C3: a named tuple encodes every field in member order and decodes those
\* bytes into a record that maps every member name to its value, advancing
\* the cursor by the sum of the members' encoded lengths.
C3_NamedTupleLayout ==
  (format.kind = "NamedTuple" /\ op \in {"encodeTo", "roundTrip"}) =>
    LET fs == [i \in 1..Len(format.members) |-> format.members[i].format]
        vs == [i \in 1..Len(format.members) |-> val[format.members[i].name]]
        bytes == concatBytes(fs, vs)
    IN  /\ pc # "threw"
        /\ written(Len(bytes)) = bytes
        /\ offset = startOffset + Len(bytes)
        /\ pc = "decoded" =>
             /\ DOMAIN res = memberNames(format)
             /\ \A n \in memberNames(format) : res[n] = val[n]

\* C4: decoding with a literal-bytes match format consumes as many bytes as
\* the literal has and returns true exactly when those bytes are the
\* literal, and never fails; with the literal "AB", "AB" decodes to true and
\* "AC" to false.
C4_LiteralMatchDecode ==
  (format.kind = "ExactMatchBytes" /\ op = "decodeFrom") =>
    LET n == Len(format.source)
    IN  /\ pc = "decoded"
        /\ offset = startOffset + n
        /\ res = (startOffset + n <= Len(buffer)
                       /\ \A i \in 1..n :
                            buffer[startOffset + i] = format.source[i])

\* the 16-bit element i (1-based) at the start offset, in the byte order
\* that the format declares
declaredElement(F, i) ==
  LET at == startOffset + 2 * (i - 1)
  IN  IF F.kind = "FixedCountUint16BEArray"
        THEN buffer[at + 1] * 256 + buffer[at + 2]
        ELSE buffer[at + 1] + buffer[at + 2] * 256

\* C5: a fixed-count 16-bit array decodes its elements in the byte order
\* the format declares on a host of either byte order; 00 01 00 02 decodes
\* to [1, 2] as big-endian and to [256, 512] as little-endian.
C5_TypedArrayDeclaredOrder ==
  (format.kind \in {"FixedCountUint16LEArray", "FixedCountUint16BEArray"}
     /\ op = "decodeFrom" /\ pc = "decoded") =>
    /\ Len(res) = format.fixedCount
    /\ \A i \in 1..format.fixedCount : res[i] = declaredElement(format, i)

\* the elements of value before its first terminator, value itself when it
\* has none
beforeTerminator(F, v) ==
  LET stops == {i \in 1..Len(v) : isTerminator(F, v[i])}
      k == IF stops = {} THEN Len(v) + 1
           ELSE CHOOSE i \in stops : \A j \in stops : i <= j
  IN  SubSeq(v, 1, k - 1)

\* element j (0-based) of the source, counted from the start offset
elementAt(E, j) == read(E, buffer, startOffset + j * fixedByteLength(E)).v

\* the 0-based positions of the source, counted in elements from the start
\* offset, whose element lies inside the buffer and is the terminator
terminatorsAt(F) ==
  LET w == fixedByteLength(F.elementFormat)
  IN  {j \in 0..Len(buffer) :
         /\ startOffset + (j + 1) * w <= Len(buffer)
         /\ isTerminator(F, elementAt(F.elementFormat, j))}

SequenceExample == SelfTerminatingSequence(UINT8, 0)

\* C6: encodeTo of a self-terminating sequence writes the elements in order
\* and then one terminator; decodeFrom yields the elements before the first
\* terminator and leaves the cursor just past that terminator; with UINT8
\* elements and terminator 0, [1,2,3] encodes to 01 02 03 00 and 01 02 03 00
\* decodes to [1,2,3].
C6_SelfTerminatingLayout ==
  format.kind = "SelfTerminating" =>
    LET E == format.elementFormat
        w == fixedByteLength(E)
    IN  /\ op \in {"encodeTo", "roundTrip"} =>
             LET all == Append(val, createTerminator(format))
                 bytes == concatBytes([i \in 1..Len(all) |-> E], all)
                 kept == beforeTerminator(format, val)
             IN  /\ pc = "threw" =>
                      /\ op = "encodeTo"
                      /\ startOffset + Len(bytes) > Len(buffer)
                 /\ pc # "threw" => written(Len(bytes)) = bytes
                 /\ format = SequenceExample /\ val = <<1, 2, 3>>
                      => bytes = <<1, 2, 3, 0>>
                 /\ pc = "encoded" => offset = startOffset + Len(bytes)
                 /\ pc = "closed" =>
                      /\ res = kept
                      /\ offset = startOffset + (Len(kept) + 1) * w
        /\ pc = "closed" =>
             LET k == CHOOSE j \in terminatorsAt(format) :
                        \A i \in terminatorsAt(format) : j <= i
             IN  /\ terminatorsAt(format) # {}
                 /\ res = [i \in 1..k |-> elementAt(E, i - 1)]
                 /\ offset = startOffset + (k + 1) * w
        /\ pc = "closed" /\ format = SequenceExample /\ startOffset = 0
             /\ buffer = <<1, 2, 3, 0>>
             => res = <<1, 2, 3>> /\ offset = 4

C6_Witness ==
  /\ pc = "closed"
  /\ op = "decodeFrom"
  /\ format = SequenceExample
  /\ buffer = <<1, 2, 3, 0>>
  /\ startOffset = 0
  /\ res = <<1, 2, 3>>

\* C7: decoding a self-terminating sequence from a buffer with no
\* terminator at or after the cursor ends in an error: the generator
\* neither completes nor yields an element from beyond the buffer's end.
C7_UnterminatedIsReported ==
  (format.kind = "SelfTerminating" /\ op = "decodeFrom"
     /\ terminatorsAt(format) = {}) =>
    /\ pc # "closed"
    /\ pc = "suspendedYield" => offset <= Len(buffer)

CountExample == createCountPrefixSequence(UINT8, UINT8, 0, 255)

\* the count that a count-prefixed decode reads at the start offset
wireCount == read(format.countFormat, buffer, startOffset).v

\* the number of elements a count stands for: none when it is undefined
elementsOf(c) == IF c = Undefined THEN 0 ELSE Max(c, 0)

\* C8: a count-prefixed sequence is laid out as the count in countFormat
\* followed by that many elements; with UINT8 count and elements, [7,8,9]
\* encodes to 03 07 08 09 and 02 AA BB FF decodes from offset 0 to
\* [AA, BB] with the cursor left at 3.
C8_CountPrefixLayout ==
  format.kind = "CountPrefix" =>
    LET E == format.elementFormat
        cw == fixedByteLength(format.countFormat)
        w == fixedByteLength(E)
    IN  /\ op \in {"encodeTo", "roundTrip"} =>
             LET bytes == scalarBytes(format.countFormat, Len(val))
                            \o concatBytes([i \in 1..Len(val) |-> E], val)
             IN  /\ pc = "threw" =>
                      /\ op = "encodeTo"
                      /\ startOffset + Len(bytes) > Len(buffer)
                 /\ pc # "threw" => written(Len(bytes)) = bytes
                 /\ format = CountExample /\ val = <<7, 8, 9>>
                      => bytes = <<3, 7, 8, 9>>
                 /\ pc \in {"encoded", "closed"}
                      => offset = startOffset + Len(bytes)
                 /\ pc = "closed" => res = val
        /\ pc = "closed" =>
             /\ res = [i \in 1..elementsOf(wireCount) |->
                        read(E, buffer, startOffset + cw + (i - 1) * w).v]
             /\ offset = startOffset + cw + elementsOf(wireCount) * w
        /\ pc = "closed" /\ format = CountExample /\ startOffset = 0
             /\ buffer = <<2, 170, 187, 255>>
             => res = <<170, 187>> /\ offset = 3

C8_Witness ==
  /\ pc = "closed"
  /\ op = "decodeFrom"
  /\ format = CountExample
  /\ buffer = <<2, 170, 187, 255>>
  /\ startOffset = 0
  /\ offset = 3

\* C9: decodeFrom of a count-prefixed sequence does not check the decoded
\* count against minCount and maxCount: whatever the count, it calls the
\* element decode exactly that many times, and an exception comes from
\* decoding the count or an element, never from the count's value.
C9_CountIsTrusted ==
  (format.kind = "CountPrefix" /\ op = "decodeFrom") =>
    /\ pc = "closed" => elementDecodes = elementsOf(wireCount)
    /\ pc = "suspendedYield" => elementDecodes <= elementsOf(wireCount)
    /\ pc = "threw" =>
         \/ read(format.countFormat, buffer, startOffset).err
         \/ /\ elementDecodes <= elementsOf(wireCount)
            /\ read(format.elementFormat, buffer, offset).err

C9_Witness ==
  /\ pc = "closed"
  /\ op = "decodeFrom"
  /\ format.kind = "CountPrefix"
  /\ wireCount # Undefined
  /\ wireCount > format.maxCount
  /\ elementDecodes = wireCount

C11_LiteralEncodeBytes ==
  (format.kind = "ExactMatchBytes" /\ op = "encodeTo") =>
    LET n == Len(format.source)
        filler == IF format.source[1] # 0 THEN 0 ELSE 255
    IN  /\ pc = "threw" => startOffset + n > Len(buffer)
        /\ pc = "encoded" =>
             /\ written(n) = IF val THEN format.source
                             ELSE [i \in 1..n |-> filler]
             /\ (format.source = <<65, 66>> /\ ~val) => written(n) = <<0, 0>>
             /\ \A i \in 1..Len(buffer) :
                  (i <= startOffset \/ i > startOffset + n)
                    => buffer[i] = before[i]

C11_Witness ==
  /\ pc = "encoded"
  /\ format = ExactMatchBytes(<<0, 1>>)
  /\ val = FALSE
  /\ startOffset = 1
  /\ before = [i \in 1..TargetLen |-> 0]
  /\ buffer = <<0, 255, 255, 0, 0, 0, 0, 0>>

\* the concatenation of the bytes of the chunks cs
RECURSIVE concatChunks(_)
concatChunks(cs) ==
  IF cs = <<>> THEN <<>> ELSE Head(cs)[2] \o concatChunks(Tail(cs))

\* the stream has been ended and neither transform nor flush will be called
settled ==
  /\ writable # "open"
  /\ \/ streamError # "none"
     \/ handed # acked
     \/ handed = Len(chunks) /\ writable = "finished"

\* C12: whatever the split into chunks, the decode stage of a scalar format
\* of width w emits, in order, the values of the consecutive w-byte groups
\* of the concatenated chunks: a pending partial element is completed with
\* the first bytes of the next chunk and decoded from the pending bytes plus
\* those, and a tail shorter than w is retained.
C12_DecodeStageGroups ==
  (pc = "decodingStream" /\ handed = acked) =>
    LET bytes == concatChunks(SubSeq(chunks, 1, handed))
        w == fixedByteLength(format)
        n == Len(bytes) \div w
    IN  /\ streamError # "RangeError"
        /\ pushed = [k \in 1..n |->
                       <<"number", read(format, bytes, (k - 1) * w).v>>]
        /\ stage.overflowOffset = Len(bytes) % w
        /\ subarray(stage.overflow, 0, stage.overflowOffset)
             = subarray(bytes, n * w, Len(bytes))

\* C13: at stream end the decode stage reports a framing error through the
\* stream's error channel if and only if a partial element is pending; a
\* stage for 4-byte elements fed one 6-byte chunk emits one element, keeps
\* 2 bytes pending and reports the framing error at stream end.
C13_FramingErrorAtEnd ==
  (pc = "decodingStream" /\ settled /\ streamError # "RangeError") =>
    LET w == fixedByteLength(format)
    IN  /\ streamError = "unexpected bytes" <=> byteLength(chunks) % w # 0
        /\ (w = 4 /\ Len(chunks) = 1 /\ byteLength(chunks) = 6) =>
             /\ Len(pushed) = 1
             /\ stage.overflowOffset = 2
             /\ streamError = "unexpected bytes"

\* C14: the encode stage of a scalar format emits, for each value written
\* to it, exactly one buffer of fixedByteLength bytes holding the encoding
\* that the format's write produces, and emits nothing else.
C14_EncodeStageEmits ==
  pc = "encodingStream" =>
    /\ streamError = "none"
    /\ \A i \in 1..Len(chunks) : chunks[i][1] = "number"
    /\ pushed = [i \in 1..acked |->
                   <<"buffer", scalarBytes(format, chunks[i][2])>>]

\* the calls [format, value] that encodeTo of F makes, in order, on the
\* formats it is composed of
encodeParts(F, v) ==
  CASE F.kind = "OrderedTuple" ->
         [i \in 1..Min(Len(v), Len(F.members)) |->
            [format |-> F.members[i], value |-> v[i]]]
    [] F.kind = "NamedTuple" ->
         [i \in 1..Min(loopCount(recordLength(v)), Len(F.members)) |->
            [format |-> F.members[i].format, value |-> v[F.members[i].name]]]
    [] F.kind \in {"Greedy", "FixedCount"} ->
         [i \in 1..Len(v) |-> [format |-> F.elementFormat, value |-> v[i]]]
    [] F.kind = "SelfTerminating" ->
         [i \in 1..(Len(v) + 1) |->
            [format |-> F.elementFormat,
             value |-> IF i <= Len(v) THEN v[i] ELSE createTerminator(F)]]
    [] F.kind = "CountPrefix" ->
         [i \in 1..(Len(v) + 1) |->
            IF i = 1 THEN [format |-> F.countFormat, value |-> Len(v)]
            ELSE [format |-> F.elementFormat, value |-> v[i - 1]]]
    [] F.kind = "Aligned" -> <<[format |-> F.innerFormat, value |-> v]>>
    [] F.kind = "ExactMatch" ->
         <<[format |-> F.innerFormat,
            value |-> IF v THEN F.matchValue ELSE F.nonMatchValue]>>
    [] OTHER -> <<>>

\* the offsets the cursor holds, one after the other, during
\* F.encodeTo(target, {offset}, v): the offset at the call, the offsets
\* during the calls on the parts, the offset when the call is over
RECURSIVE encodeTrace(_, _, _, _)
encodeTrace(F, target, start, v) ==
  LET parts == encodeParts(F, v)
      walk[i \in 0..Len(parts)] ==
        IF i = 0
          THEN [buf |-> target, offset |-> start, err |-> FALSE,
                trace |-> <<start>>]
        ELSE LET p == walk[i - 1]
                 r == encodeTo(parts[i].format, p.buf, p.offset, parts[i].value)
             IN  IF p.err THEN p
                 ELSE [buf |-> r.buf, offset |-> r.offset, err |-> r.err,
                       trace |-> p.trace \o encodeTrace(parts[i].format, p.buf,
                                                        p.offset, parts[i].value)]
      end == encodeTo(F, target, start, v)
  IN  IF walk[Len(parts)].err \/ end.err THEN walk[Len(parts)].trace
      ELSE Append(walk[Len(parts)].trace, end.offset)

\* the formats on which decodeFrom of F calls decodeFrom, in order, before
\* it returns
decodeParts(F) ==
  CASE F.kind = "OrderedTuple" -> F.members
    [] F.kind = "NamedTuple" ->
         [i \in 1..Min(loopCount(recordLength(emptyRecord)), Len(F.members))
            |-> F.members[i].format]
    [] F.kind \in {"Aligned", "ExactMatch"} -> <<F.innerFormat>>
    [] OTHER -> <<>>

\* the offsets the cursor holds, one after the other, during
\* F.decodeFrom(source, {offset})
RECURSIVE decodeTrace(_, _, _)
decodeTrace(F, source, start) ==
  LET parts == decodeParts(F)
      walk[i \in 0..Len(parts)] ==
        IF i = 0 THEN [offset |-> start, err |-> FALSE, trace |-> <<start>>]
        ELSE LET p == walk[i - 1]
                 r == decodeFrom(parts[i], source, p.offset)
             IN  IF p.err THEN p
                 ELSE [offset |-> r.offset, err |-> r.err,
                       trace |-> p.trace \o decodeTrace(parts[i], source,
                                                        p.offset)]
      end == decodeFrom(F, source, start)
  IN  IF walk[Len(parts)].err \/ end.err THEN walk[Len(parts)].trace
      ELSE Append(walk[Len(parts)].trace, end.offset)

nonDecreasing(t) == \A i \in 1..(Len(t) - 1) : t[i] <= t[i + 1]

\* the offsets of the cursor during the call that has led to this state
callTrace ==
  IF op = "encodeTo" THEN encodeTrace(format, before, startOffset, val)
  ELSE decodeTrace(format, buffer, startOffset)

\* C15: during one top-level encodeTo or decodeFrom on any composition of
\* formats, the offset of the shared cursor never decreases from one step
\* to the next, the resumptions of a lazily decoded sequence included.
C15_CursorMonotonic ==
  /\ []((pc \notin {"idle", "suspendedYield", "closed"}
           /\ op \in {"encodeTo", "decodeFrom", "roundTrip"}) =>
          /\ nonDecreasing(callTrace)
          /\ callTrace[1] = startOffset
          /\ pc # "threw" => callTrace[Len(callTrace)] = offset)
  /\ [][(pc \in {"suspendedStart", "suspendedYield"} /\ pc' # "idle") =>
         offsetHolder'.offset >= offsetHolder.offset]_vars

C15_Witness ==
  /\ pc = "decoded"
  /\ op = "decodeFrom"
  /\ format = getAlignedFormat(TupleExample, 4)
  /\ callTrace = <<0, 0, 0, 1, 1, 3, 3, 4>>

\* C16: every non-greedy format has minByteLength <= maxByteLength, and
\* the measureByteLength of any value handed to it lies between the two
\* when both are finite: named tuples, fixed-count typed arrays and
\* count-prefixed sequences of any minCount and maxCount included.
C16_LengthBounds ==
  (op = "encodeTo" /\ format.kind # "Greedy") =>
    /\ minByteLength(format) <= maxByteLength(format)
    /\ maxByteLength(format) < Infinity =>
         /\ minByteLength(format) <= measureByteLength(format, val)
         /\ measureByteLength(format, val) <= maxByteLength(format)

\* the layout of a fixed-count or count-prefixed sequence S whose own
\* position in the buffer is s: its elements, and the offset immediately
\* after the last of them
sequenceAt(S, s) ==
  LET n == IF S.kind = "FixedCount" THEN S.fixedCount
           ELSE elementsOf(read(S.countFormat, buffer, s).v)
      first == IF S.kind = "FixedCount" THEN s
               ELSE s + fixedByteLength(S.countFormat)
      w == fixedByteLength(S.elementFormat)
  IN  [elements |->
         [j \in 1..n |-> read(S.elementFormat, buffer, first + (j - 1) * w).v],
       end |-> first + n * w]

\* the buffer holds, from offset s, a whole tuple T of a sequence and a
\* following member
holdsTuple(T, s) ==
  /\ s + fixedByteLength(T.members[1].elementFormat) <= Len(buffer)
  /\ sequenceAt(T.members[1], s).end + fixedByteLength(T.members[2])
        <= Len(buffer)

\* C17: decodeFrom of an ordered tuple with a fixed-count or count-prefixed
\* sequence member followed by another member reads the following member
\* from the offset immediately after the sequence's last element, and the
\* sequence's elements, whenever the caller iterates them, are the ones
\* at the sequence's own position.
C17_SequenceMemberThreaded ==
  /\ (pc = "decoded" /\ format \in SequenceTuples
        /\ holdsTuple(format, startOffset)) =>
       res[2] = read(format.members[2], buffer,
                     sequenceAt(format.members[1], startOffset).end).v
  /\ (op = "memberDecodeFrom" /\ pc \in {"closed", "threw"}
        /\ holdsTuple(enclosing.format, enclosing.startOffset)) =>
       /\ pc = "closed"
       /\ res = sequenceAt(format, enclosing.startOffset).elements

\* the end offset that findEndOffset has returned
found == result[2]

\* the formats that findEndOffset of F applies in order: the members of a
\* tuple
appliedFormats(F) ==
  [i \in 1..Len(F.members) |-> memberFormat(F, i)]

\* the end offsets of the members of tuple F laid one after the other
\* from the start offset
memberEnds(F) ==
  LET ends[i \in 0..Len(F.members)] ==
        IF i = 0 THEN startOffset
        ELSE findEndOffset(appliedFormats(F)[i], buffer, ends[i - 1])
  IN  ends

\* the end offsets of the elements of sequence F laid one after the other
\* from the start offset
elementEnds(F) ==
  LET ends[i \in 0..(Len(buffer) + 1)] ==
        IF i = 0 THEN startOffset
        ELSE findEndOffset(F.elementFormat, buffer, ends[i - 1])
  IN  ends

\* an end offset at which findEndOffset stops short
isSentinel(e) == e < 0 \/ e >= Len(buffer)

\* what is returned for an end offset that stops the scan
sentinelOf(e) == IF e < 0 THEN e ELSE 0 - e

\* C18: findEndOffset of an ordered tuple, a named tuple and a
\* self-terminating sequence applies the member/element findEndOffset in
\* order, returns a negative result unchanged as soon as one occurs, the
\* negation of the computed offset as soon as it reaches or exceeds the
\* buffer length, and otherwise the final end offset; for the
\* self-terminating sequence, the end offset of the first element that
\* decodesToTerminator recognises.
C18_SentinelPropagation ==
  (pc = "found") =>
    /\ format.kind \in {"OrderedTuple", "NamedTuple"} =>
         LET n == Len(format.members)
             ends == memberEnds(format)
             stops == {i \in 1..n :
                         /\ \A j \in 1..(i - 1) : ~isSentinel(ends[j])
                         /\ isSentinel(ends[i])}
         IN  /\ \A i \in stops : found = sentinelOf(ends[i])
             /\ stops = {} => found = ends[n]
    /\ format.kind = "SelfTerminating" =>
         LET ends == elementEnds(format)
             stops == {i \in 1..(Len(buffer) + 1) :
                         /\ \A j \in 1..(i - 1) :
                              /\ ~isSentinel(ends[j])
                              /\ ~decodesToTerminator(format, buffer,
                                                      ends[j - 1])
                         /\ \/ isSentinel(ends[i])
                            \/ decodesToTerminator(format, buffer,
                                                   ends[i - 1])}
         IN  /\ stops # {}
             /\ \A i \in stops :
                  found = IF isSentinel(ends[i]) THEN sentinelOf(ends[i])
                          ELSE ends[i]

\* a negative result of a member is returned unchanged
C18_Witness ==
  /\ pc = "found"
  /\ format = createOrderedTuple(<<UINT8, createOrderedTuple(<<UINT8, UINT8>>)>>)
  /\ buffer = <<1, 2, 3>>
  /\ startOffset = 0
  /\ found = 0 - 3

\* C19: findEndOffset(bytes, s) of an alignment wrapper is the offset at
\* which decodeFrom started at s leaves the cursor, for every s, multiple
\* of the alignment or not.
C19_AlignedEndIsDecodeEnd ==
  (pc = "found" /\ format.kind = "Aligned") =>
    LET decoded == decodeFrom(format, buffer, startOffset)
    IN  (~decoded.err /\ decoded.offset <= Len(buffer)) =>
          found = decoded.offset

\* the buffer holds, from offset s, a count c and then c sequences, each
\* a count k and then k bytes: the offset just past the last of them
sequencesEnd(s) ==
  LET c == elementsOf(read(UINT8, buffer, s).v)
      ends[i \in 0..c] ==
        IF i = 0 THEN s + 1
        ELSE ends[i - 1] + 1 + elementsOf(read(UINT8, buffer, ends[i - 1]).v)
  IN  ends[c]

\* C20: findEndOffset(bytes, s) of a count-prefixed sequence whose
\* elements are not fixed-size returns, on a well-formed buffer, the
\* offset just past the last of the count elements that follow the count.
C20_CountPrefixEndOfElements ==
  (pc = "found" /\ format = SequenceOfSequences
     /\ startOffset < Len(buffer)
     /\ sequencesEnd(startOffset) <= Len(buffer)) =>
    found = sequencesEnd(startOffset)

\* C21: every chunk handed to the decode stage's transform is acknowledged
\* by its callback exactly once, a chunk too short to complete the pending
\* partial element included, so that later chunks and the flush at stream
\* end are processed.  transform is synchronous and keeps no reference to
\* its callback: a chunk that is not acknowledged when transform has
\* returned is never acknowledged.
C21_EveryChunkAcknowledged ==
  (pc = "decodingStream" /\ streamError = "none") => acked = handed

====
